---- MODULE Spec2Model ----
(***************************************************************************)
(* twixelwall-bot: a chat line "x y r g b [a]" is parsed into a Command    *)
(* and, when it is inside the configured canvas, blended onto one pixel    *)
(* of the canvas image, which is rewritten through a temporary file and a  *)
(* rename.  The model follows src/src/main.rs.                             *)
(***************************************************************************)
EXTENDS Integers, Sequences, FiniteSets, TLC

(***************************************************************************)
(* Text.  A string is a sequence of one-character strings.                 *)
(***************************************************************************)
Digits == <<"0", "1", "2", "3", "4", "5", "6", "7", "8", "9">>

IsDigit(c) == \E i \in 1..10 : Digits[i] = c

DigitVal(c) == (CHOOSE i \in 1..10 : Digits[i] = c) - 1

(***************************************************************************)
(* u32.  A u32 is kept as two 16-bit limbs, value = hi * 65536 + lo, so    *)
(* that the whole range 0 .. 2^32 - 1 and its overflow are represented.    *)
(***************************************************************************)
U32Limb == 65536

U32(hi, lo) == [hi |-> hi, lo |-> lo]

U32Ge(a, b) == a.hi > b.hi \/ (a.hi = b.hi /\ a.lo >= b.lo)

U32Gt(a, b) == a.hi > b.hi \/ (a.hi = b.hi /\ a.lo > b.lo)

\* `v as u8`: the low eight bits.
AsU8(v) == v.lo % 256

ParseIntError == [ok |-> FALSE, hi |-> 0, lo |-> 0]

\* Mutant of ParseDigits: wrapping arithmetic, an overflow is not an error.
RECURSIVE ParseDigitsWrapping(_, _, _)
ParseDigitsWrapping(s, i, acc) ==
    IF i > Len(s) THEN [ok |-> TRUE, hi |-> acc.hi, lo |-> acc.lo]
    ELSE IF ~IsDigit(s[i]) THEN ParseIntError
    ELSE LET lo10 == acc.lo * 10 + DigitVal(s[i])
             hi10 == acc.hi * 10 + (lo10 \div U32Limb)
         IN  ParseDigitsWrapping(s, i + 1, U32(hi10 % U32Limb, lo10 % U32Limb))

\* The digit loop of u32::from_str: checked_mul(10) then checked_add(digit);
\* a character that is no digit is InvalidDigit, an overflow PosOverflow.
RECURSIVE ParseDigits(_, _, _)
ParseDigits(s, i, acc) ==
    IF i > Len(s) THEN [ok |-> TRUE, hi |-> acc.hi, lo |-> acc.lo]
    ELSE IF ~IsDigit(s[i]) THEN ParseIntError
    ELSE LET lo10 == acc.lo * 10 + DigitVal(s[i])
             hi10 == acc.hi * 10 + (lo10 \div U32Limb)
         IN  IF hi10 >= U32Limb THEN ParseIntError
             ELSE ParseDigits(s, i + 1, U32(hi10, lo10 % U32Limb))

\* str::parse::<u32>: the empty string is an error, one leading "+" is
\* skipped (a "-" is not, for an unsigned type), the rest must be digits.
ParseU32(tok) ==
    IF Len(tok) = 0 THEN ParseIntError
    ELSE LET digits == IF tok[1] = "+" THEN Tail(tok) ELSE tok
         IN  IF Len(digits) = 0 THEN ParseIntError
             ELSE ParseDigits(digits, 1, U32(0, 0))

\* The character the line is split on.
SplitChar == " "

\* value.split(' '): every single space ends a token; n spaces give n + 1
\* tokens, empty ones included.
RECURSIVE SplitAt(_, _, _, _)
SplitAt(s, i, cur, acc) ==
    IF i > Len(s) THEN Append(acc, cur)
    ELSE IF s[i] = SplitChar THEN SplitAt(s, i + 1, <<>>, Append(acc, cur))
    ELSE SplitAt(s, i + 1, Append(cur, s[i]), acc)

Split(s) == SplitAt(s, 1, <<>>, <<>>)

(***************************************************************************)
(* Command and Command::try_from.                                          *)
(***************************************************************************)
NoCommand == [x |-> U32(0, 0), y |-> U32(0, 0), r |-> 0, g |-> 0, b |-> 0, a |-> 0]

Err(e) == [ok |-> FALSE, err |-> e, cmd |-> NoCommand]

Ok(c) == [ok |-> TRUE, err |-> "", cmd |-> c]

\* The largest value a colour component may have.
ColourMax == U32(0, 255)

\* Mutant of ArityOk: no upper limit on the number of values.
ArityAtLeast5(len) == len >= 5

\* (5..7).contains(&v.len())
ArityOk(len) == len >= 5 /\ len < 7

\* v[2] > 255 || v[3] > 255 || v[4] > 255
ColourCheckFails(v) ==
    U32Gt(v[3], ColourMax) \/ U32Gt(v[4], ColourMax) \/ U32Gt(v[5], ColourMax)

\* Mutant of AlphaOf: the sixth value is ignored.
AlphaOfIgnored(v) == 255

\* The alpha of the command: v[5] as u8 when six values were given, else 255.
AlphaOf(v) == IF Len(v) = 6 THEN AsU8(v[6]) ELSE 255

TryFrom(value) ==
    LET toks == Split(value)
        p    == [i \in 1..Len(toks) |-> ParseU32(toks[i])]
        v    == [i \in 1..Len(toks) |-> U32(p[i].hi, p[i].lo)]
    IN  IF \E i \in 1..Len(toks) : ~p[i].ok THEN Err("error parsing")
        ELSE IF ~ArityOk(Len(v)) THEN Err("too many args")
        ELSE IF ColourCheckFails(v) THEN Err("invalid r g b")
        ELSE Ok([x |-> v[1], y |-> v[2],
                 r |-> AsU8(v[3]), g |-> AsU8(v[4]), b |-> AsU8(v[5]),
                 a |-> AlphaOf(v)])

(***************************************************************************)
(* f32 arithmetic.  Pixel::blend of the image crate (Rgba<u8>, release     *)
(* line 0.23, the one contemporary with twitch_irc's TCPTransport) works   *)
(* in f32 and casts the results back to u8 by truncation.  An f32 that is  *)
(* not negative is m * 2^e with m = 0 or 2^23 <= m < 2^24; every operation *)
(* rounds to nearest, ties to even.  24-bit mantissas are multiplied in    *)
(* 12-bit halves so that no intermediate value leaves 31 bits.             *)
(***************************************************************************)
F32Zero == [m |-> 0, e |-> 0]

\* Round the exact value (q + f) * 2^e, 0 <= f < 1, f # 0 iff sticky, to an
\* f32.  When sticky holds q has at least 25 bits.
RECURSIVE F32Round(_, _, _)
F32Round(q, sticky, e) ==
    IF q = 0 THEN F32Zero
    ELSE IF q >= 33554432 THEN F32Round(q \div 2, sticky \/ (q % 2 = 1), e + 1)
    ELSE IF q >= 16777216 THEN
        LET m  == q \div 2
            up == (q % 2 = 1) /\ (sticky \/ (m % 2 = 1))
            m1 == IF up THEN m + 1 ELSE m
        IN  IF m1 = 16777216 THEN [m |-> 8388608, e |-> e + 2]
            ELSE [m |-> m1, e |-> e + 1]
    ELSE IF q < 8388608 THEN F32Round(q * 2, sticky, e - 1)
    ELSE [m |-> q, e |-> e]

\* to_f32 of a u8: exact.
F32FromU8(c) == F32Round(c, FALSE, 0)

F32Mul(a, b) ==
    IF a.m = 0 \/ b.m = 0 THEN F32Zero
    ELSE LET a1 == a.m \div 4096
             a0 == a.m % 4096
             b1 == b.m \div 4096
             b0 == b.m % 4096
             p1 == a1 * b0 + a0 * b1
             t  == a0 * b0 + (p1 % 4096) * 4096
             lo == t % 16777216
             hi == a1 * b1 + (p1 \div 4096) + (t \div 16777216)
         IN  F32Round(hi * 4 + (lo \div 4194304), (lo % 4194304) # 0,
                      a.e + b.e + 22)

F32Add(a, b) ==
    IF a.m = 0 THEN b
    ELSE IF b.m = 0 THEN a
    ELSE LET big == IF a.e >= b.e THEN a ELSE b
             sml == IF a.e >= b.e THEN b ELSE a
             d   == big.e - sml.e
             y   == sml.m * 8
             fl  == IF d > 27 THEN 0 ELSE y \div (2 ^ d)
             rem == IF d > 27 THEN TRUE ELSE (y % (2 ^ d)) # 0
         IN  F32Round(big.m * 8 + fl, rem, big.e - 3)

\* a - b for a >= b >= 0 (the only subtractions blend makes).
F32Sub(a, b) ==
    IF b.m = 0 THEN a
    ELSE LET d   == a.e - b.e
             y   == b.m * 8
             fl  == IF d > 27 THEN 0 ELSE y \div (2 ^ d)
             rem == IF d > 27 THEN TRUE ELSE (y % (2 ^ d)) # 0
             q   == IF rem THEN a.m * 8 - fl - 1 ELSE a.m * 8 - fl
         IN  F32Round(q, rem, a.e - 3)

\* n steps of binary long division of r / d, continuing the quotient q.
RECURSIVE DivSteps(_, _, _, _)
DivSteps(q, r, d, n) ==
    IF n = 0 THEN <<q, r>>
    ELSE IF 2 * r >= d THEN DivSteps(2 * q + 1, 2 * r - d, d, n - 1)
    ELSE DivSteps(2 * q, 2 * r, d, n - 1)

F32Div(a, b) ==
    IF a.m = 0 THEN F32Zero
    ELSE LET qr == DivSteps(a.m \div b.m, a.m % b.m, b.m, 26)
         IN  F32Round(qr[1], qr[2] # 0, a.e - b.e - 26)

\* NumCast::from(f32) to u8: the fractional part is dropped.
F32ToU8(a) ==
    IF a.m = 0 THEN 0
    ELSE IF a.e >= 0 THEN a.m * (2 ^ a.e)
    ELSE IF -a.e > 30 THEN 0
    ELSE a.m \div (2 ^ (-a.e))

F32One == F32FromU8(1)

\* max_t: u8::max_value() as f32.
MaxT == F32FromU8(255)

\* One channel as a float between 0.0 and 1.0.
Unit(c) == F32Div(F32FromU8(c), MaxT)

\* bg_a + fg_a - bg_a * fg_a
AlphaFinal(bg_a, fg_a) == F32Sub(F32Add(bg_a, fg_a), F32Mul(bg_a, fg_a))

\* One colour channel of the blend: premultiply, src-over, unmultiply, cast.
BlendChannel(bg_c, fg_c, bg_a, fg_a, alpha_final) ==
    LET bg_c_a  == F32Mul(bg_c, bg_a)
        fg_c_a  == F32Mul(fg_c, fg_a)
        out_c_a == F32Add(fg_c_a, F32Mul(bg_c_a, F32Sub(F32One, fg_a)))
    IN  F32ToU8(F32Mul(MaxT, F32Div(out_c_a, alpha_final)))

\* <Rgba<u8> as Pixel>::blend: self is bg, other is fg; pixels are <<r,g,b,a>>.
Blend(bg, fg) ==
    LET bg_a == Unit(bg[4])
        fg_a == Unit(fg[4])
        alpha_final == AlphaFinal(bg_a, fg_a)
    IN  IF alpha_final.m = 0 THEN bg
        ELSE << BlendChannel(Unit(bg[1]), Unit(fg[1]), bg_a, fg_a, alpha_final),
                BlendChannel(Unit(bg[2]), Unit(fg[2]), bg_a, fg_a, alpha_final),
                BlendChannel(Unit(bg[3]), Unit(fg[3]), bg_a, fg_a, alpha_final),
                F32ToU8(F32Mul(MaxT, alpha_final)) >>

(***************************************************************************)
(* Images and files.  An image is [w, h, px], px row-major.  A file is     *)
(* absent, holds bytes no decoder accepts ("corrupt"), holds the beginning *)
(* of an encoding ("torn"), or holds a complete PNG of a colour type.      *)
(***************************************************************************)
NoImage == [w |-> 0, h |-> 0, px |-> <<>>]

Absent == [kind |-> "absent", ct |-> "", w |-> 0, h |-> 0, px |-> <<>>]

Corrupt == [kind |-> "corrupt", ct |-> "", w |-> 0, h |-> 0, px |-> <<>>]

Torn == [kind |-> "torn", ct |-> "", w |-> 0, h |-> 0, px |-> <<>>]

Png(ct, w, h, px) == [kind |-> "png", ct |-> ct, w |-> w, h |-> h, px |-> px]

\* Mutant of Decodable: any file that exists is taken for an image.
DecodableIfPresent(f) == f.kind # "absent"

\* ImageReader::open(..) succeeds and .decode() succeeds.
Decodable(f) == f.kind = "png"

\* DynamicImage::to_rgba8 of the decoded file: an image without an alpha
\* channel becomes opaque.
ToRgba8(f) ==
    [w |-> f.w, h |-> f.h,
     px |-> [i \in 1..Len(f.px) |->
                IF f.ct = "Rgb8"
                THEN <<f.px[i][1], f.px[i][2], f.px[i][3], 255>>
                ELSE f.px[i]]]

\* RgbaImage::save to a ".png" path: a complete RGBA PNG of the buffer.
Encode(i) == Png("Rgba8", i.w, i.h, i.px)

\* ImageBuffer's pixel index of (x, y), 1-based.
PixelIndex(i, x, y) == y.lo * i.w + x.lo + 1

\* get_pixel_mut's bounds assertion, x and y being u32.
InImage(i, x, y) == x.hi = 0 /\ x.lo < i.w /\ y.hi = 0 /\ y.lo < i.h

(***************************************************************************)
(* Configuration: [twixel] width and height of the configuration file.     *)
(***************************************************************************)
Config == [width |-> U32(0, 2), height |-> U32(0, 1)]

\* Mutant of OutOfBounds: only x is checked.
OutOfBoundsXOnly(c) == U32Ge(c.x, Config.width)

\* Mutant of OutOfBounds: > where the code has >=.
OutOfBoundsStrict(c) == U32Gt(c.x, Config.width) \/ U32Gt(c.y, Config.height)

\* command.x >= config.twixel.width || command.y >= config.twixel.height
OutOfBounds(c) == U32Ge(c.x, Config.width) \/ U32Ge(c.y, Config.height)

\* Mutant of SavePath: the image is saved onto the canvas path itself.
SavePathInPlace == "img"

\* The file img.save writes: the temporary file, not the canvas.
SavePath == "tmp"

\* Mutant of AfterSaveError: the failed cycle is tried again.
AfterSaveErrorRetry == "tempdir"

\* Mutant of AfterSaveError: no `continue`, the rename follows.
AfterSaveErrorFallThrough == "rename"

\* Where the loop goes when img.save fails: `continue`, the next message.
AfterSaveError == "recv"

(***************************************************************************)
(* Chat lines.  An input is the tokens of a line and the character that    *)
(* joins them.  A token carries its text, what it is (cls) and, when it is *)
(* a decimal number in the u32 range, its value v:                         *)
(*   "digits"  decimal digits only, a u32                                  *)
(*   "big"     decimal digits only, beyond the u32 range                   *)
(*   "signed"  a sign followed by decimal digits                           *)
(*   "empty"   no character                                                *)
(*   "word"    anything else                                               *)
(***************************************************************************)
Tok(txt, cls, v) == [txt |-> txt, cls |-> cls, v |-> v]

\* The decimal digits of a u32, most significant first.
RECURSIVE ToDigits(_, _)
ToDigits(v, acc) ==
    LET t    == (v.hi % 10) * 65536 + v.lo
        q    == U32(v.hi \div 10, t \div 10)
        acc2 == <<Digits[(t % 10) + 1]>> \o acc
    IN  IF q.hi = 0 /\ q.lo = 0 THEN acc2 ELSE ToDigits(q, acc2)

Num(hi, lo) == Tok(ToDigits(U32(hi, lo), <<>>), "digits", U32(hi, lo))

N(k) == Num(0, k)

TokPlus1 == Tok(<<"+", "1">>, "signed", U32(0, 1))

TokMinus1 == Tok(<<"-", "1">>, "signed", U32(0, 0))

TokEmpty == Tok(<<>>, "empty", U32(0, 0))

TokRed == Tok(<<"r", "e", "d">>, "word", U32(0, 0))

Tok25x == Tok(<<"2", "5", "x">>, "word", U32(0, 0))

\* 4294967296 = 2^32
TokBig == Tok(<<"4", "2", "9", "4", "9", "6", "7", "2", "9", "6">>, "big", U32(0, 0))

\* A line: its tokens, the characters that join two tokens, and the
\* characters before the first and after the last token.
Joined(toks, lead, sep, trail) ==
    [toks |-> toks, sep |-> sep, lead |-> lead, trail |-> trail]

In(toks) == Joined(toks, <<>>, <<" ">>, <<>>)

NoInput == In(<<>>)

RECURSIVE JoinFrom(_, _, _)
JoinFrom(toks, sep, i) ==
    IF i > Len(toks) THEN <<>>
    ELSE (IF i > 1 THEN sep ELSE <<>>) \o toks[i].txt \o JoinFrom(toks, sep, i + 1)

\* The text of the chat line of an input.
Line(i) == i.lead \o JoinFrom(i.toks, i.sep, 1) \o i.trail

\* The lines the chat delivers to the loop.
Inputs ==
    { In(<<N(0), N(0), N(255), N(0), N(0)>>),
      In(<<N(1), N(0), N(255), N(0), N(0)>>),
      In(<<N(1), N(0), N(255), N(0), N(0), N(255)>>),
      In(<<N(0), N(0), N(9), N(8), N(7), N(0)>>),
      In(<<N(1), N(0), N(9), N(8), N(7), N(0)>>),
      In(<<N(0), N(0), N(200), N(100), N(50), N(128)>>),
      In(<<N(1), N(0), N(200), N(100), N(50), N(128)>>),
      In(<<N(0), N(0), N(9), N(8), N(7), N(256)>>),
      In(<<TokPlus1, N(0), N(255), N(0), N(0)>>),
      In(<<N(2), N(0), N(255), N(0), N(0)>>),
      In(<<N(0), N(1), N(255), N(0), N(0)>>),
      In(<<N(1), N(1), N(9), N(8), N(7), N(0)>>),
      In(<<Num(65535, 65535), N(0), N(1), N(2), N(3)>>),
      In(<<N(0), Num(1, 0), N(1), N(2), N(3)>>),
      In(<<N(0), N(0), N(256), N(0), N(0)>>),
      In(<<N(0), N(0), N(0), N(999), N(0)>>),
      In(<<N(0), N(0), N(0), N(0), N(300), N(255)>>),
      In(<<TokEmpty>>),
      In(<<N(0)>>),
      In(<<N(0), N(0), N(255), N(0)>>),
      In(<<N(0), N(0), N(255), N(0), N(0), N(255), N(9)>>),
      In(<<N(0), N(0), TokRed, N(0), N(0)>>),
      In(<<N(0), N(0), N(255), N(0), N(0), Tok25x>>),
      In(<<N(0), TokEmpty, N(0), N(255), N(0), N(0)>>),
      In(<<N(0), N(0), N(255), N(0), N(0), TokEmpty>>),
      In(<<TokMinus1, N(0), N(255), N(0), N(0)>>),
      In(<<TokBig, N(0), N(255), N(0), N(0)>>),
      In(<<TokRed, Tok25x>>) }

\* The lines Command::try_from is applied to on its own.
ParseX == {Num(0, 0), Num(0, 1), Num(0, 65535), Num(1, 0), Num(65535, 65535)}

ParseY == {Num(0, 0), Num(0, 7), Num(1, 1)}

ParseColour == {N(0), N(7), N(128), N(255)}

\* Five and six numbers joined by other whitespace than one space.
ParseWhitespace ==
    LET five == <<N(0), N(0), N(255), N(0), N(0)>>
        six  == <<N(1), N(0), N(9), N(8), N(7), N(128)>>
    IN  { Joined(t, <<>>, <<"\t">>, <<>>) : t \in {five, six} }
        \cup { Joined(t, <<>>, <<" ", " ">>, <<>>) : t \in {five, six} }
        \cup { Joined(t, <<" ">>, <<" ">>, <<>>) : t \in {five, six} }
        \cup { Joined(t, <<>>, <<" ">>, <<" ">>) : t \in {five, six} }
        \cup { Joined(five, <<"\t">>, <<" ", "\t">>, <<" ", " ">>) }

\* Lines with a token count other than 5 or 6 whose tokens all parse.
ParseArity ==
    { In(<<N(0), N(0), N(256)>>),
      In(<<N(0), N(0), N(256), N(0)>>),
      In(<<N(0), N(0), N(0), N(300), N(0), N(0), N(0)>>),
      In(<<TokPlus1, N(0), N(0)>>),
      In(<<N(0), TokBig>>),
      In(<<TokMinus1, N(0), N(0), N(0)>>),
      In(<<N(0), N(0), N(0), N(0), N(0), N(0), TokRed>>) }

ParseInputs ==
    Inputs
    \cup ParseWhitespace
    \cup ParseArity
    \cup { In(<<x, y, r, g, b>>) :
             x \in ParseX, y \in ParseY, r \in ParseColour, g \in ParseColour,
             b \in ParseColour }
    \cup { In(<<x, y, r, g, b, a>>) :
             x \in ParseX, y \in ParseY, r \in ParseColour, g \in ParseColour,
             b \in ParseColour, a \in ParseColour }

\* What the canvas path may hold when the bot starts.
InitialFiles ==
    { Png("Rgba8", 2, 1, << <<10, 20, 30, 255>>, <<0, 0, 0, 255>> >>),
      Png("Rgba8", 2, 1, << <<0, 0, 0, 128>>, <<11, 22, 33, 3>> >>),
      Png("Rgb8", 2, 1, << <<1, 2, 3>>, <<4, 5, 6>> >>),
      Png("Rgba8", 1, 1, << <<5, 5, 5, 255>> >>),
      Absent,
      Corrupt }

\* The number of chat messages a run receives.
MaxLines == 3

(***************************************************************************)
(* State.                                                                  *)
(*   fs      the two paths: fs.img the canvas file, fs.tmp tmpdir/img.png  *)
(*   tmpdir  the scratch directory of the running cycle exists             *)
(*   pc      where the spawned task is                                     *)
(*   res     the Result of Command::try_from for the last line             *)
(*   img     the decoded image buffer of the running cycle                 *)
(*   n       messages received so far                                      *)
(*   inp     the last line received, as an input                           *)
(*   out     what became of the last message                               *)
(*   pre     the canvas file when the last message was received            *)
(*   ideal   the canvas as the history of the run defines it: the first    *)
(*           image, each write of another program, and the blend of each   *)
(*           published line, in order; Faulted once a cycle has failed     *)
(***************************************************************************)
VARIABLES fs, tmpdir, pc, res, img, n, inp, out, pre, ideal

vars == <<fs, tmpdir, pc, res, img, n, inp, out, pre, ideal>>

\* The value of ideal after a cycle has failed.
Faulted == [w |-> 0, h |-> 0, px |-> <<"fault">>]

\* The blend of command c laid on image i, pixel by pixel.
Laid(i, c) ==
    [w |-> i.w, h |-> i.h,
     px |-> [j \in 1..Len(i.px) |->
                IF j = c.y.lo * i.w + c.x.lo + 1
                THEN Blend(i.px[j], <<c.r, c.g, c.b, c.a>>)
                ELSE i.px[j]]]

NoResult == Err("")

Init ==
    /\ fs \in {[img |-> f, tmp |-> Absent] : f \in InitialFiles}
    /\ tmpdir = FALSE
    /\ pc = "recv"
    /\ res = NoResult
    /\ img = NoImage
    /\ n = 0
    /\ inp = NoInput
    /\ out = "start"
    /\ pre = fs.img
    /\ ideal = IF Decodable(fs.img) THEN ToRgba8(fs.img) ELSE NoImage

\* Mutant of DropTempDir: the scratch directory is left as it is.
DropTempDirKeeps(f) == f

\* Dropping the TempDir removes the scratch directory and what is in it.
DropTempDir(f) == [f EXCEPT !["tmp"] = Absent]

\* Mutant of AwaitPoints: the task also yields before the temporary file is
\* made.
AwaitPointsInCycle == {"recv", "tempdir"}

\* Where the task awaits, and so where a message can be taken from the
\* queue: incoming_messages.recv().await is the only await of the loop.
AwaitPoints == {"recv"}

\* A Privmsg arrives: parse it, check the bounds (lines 159-167).
RecvPrivmsg ==
    /\ pc \in AwaitPoints
    /\ n < MaxLines
    /\ \E i \in Inputs :
         LET r == TryFrom(Line(i))
         IN  /\ inp' = i
             /\ res' = r
             /\ IF ~r.ok THEN out' = "rejected" /\ pc' = "recv"
                ELSE IF OutOfBounds(r.cmd) THEN out' = "dropped" /\ pc' = "recv"
                ELSE out' = "cycle" /\ pc' = "load"
    /\ n' = n + 1
    /\ pre' = fs.img
    /\ UNCHANGED <<fs, tmpdir, img, ideal>>

\* Any other server message: `_ => continue`.
RecvOther ==
    /\ pc \in AwaitPoints
    /\ n < MaxLines
    /\ n' = n + 1
    /\ inp' = NoInput
    /\ res' = NoResult
    /\ out' = "ignored"
    /\ pre' = fs.img
    /\ UNCHANGED <<fs, tmpdir, pc, img, ideal>>

\* recv() returns None: the loop and the task end, main returns.
RecvClosed ==
    /\ pc \in AwaitPoints
    /\ pc' = "closed"
    /\ inp' = NoInput
    /\ res' = NoResult
    /\ out' = "closed"
    /\ pre' = fs.img
    /\ UNCHANGED <<fs, tmpdir, img, n, ideal>>

\* Mutant of LoadSource: the image is the one that was on disk when the
\* message arrived.
LoadSourceStale == pre

\* What a cycle decodes: the file at img_filepath as it is at the load.
LoadSource == fs.img

\* ImageReader::open(..).unwrap().decode().unwrap().to_rgba8(): a file that
\* cannot be opened or decoded panics the task, and join_handle.await.unwrap()
\* then panics main.
Load ==
    /\ pc = "load"
    /\ IF Decodable(LoadSource)
       THEN img' = ToRgba8(LoadSource) /\ pc' = "blend" /\ out' = out
            /\ ideal' = ideal
       ELSE img' = NoImage /\ pc' = "panicked" /\ out' = "load_failed"
            /\ ideal' = Faulted
    /\ UNCHANGED <<fs, tmpdir, res, n, inp, pre>>

\* img.get_pixel_mut(x, y).blend(..): get_pixel_mut panics outside the image.
BlendPixel ==
    /\ pc = "blend"
    /\ LET c == res.cmd
       IN  IF InImage(img, c.x, c.y)
           THEN /\ img' = [img EXCEPT !.px[PixelIndex(img, c.x, c.y)] =
                               Blend(@, <<c.r, c.g, c.b, c.a>>)]
                /\ pc' = "tempdir"
                /\ out' = out
                /\ ideal' = ideal
           ELSE /\ img' = NoImage
                /\ pc' = "panicked"
                /\ out' = "pixel_panic"
                /\ ideal' = Faulted
    /\ UNCHANGED <<fs, tmpdir, res, n, inp, pre>>

\* tempdir().unwrap()
TempDir ==
    /\ pc = "tempdir"
    /\ \/ tmpdir' = TRUE /\ pc' = "save" /\ out' = out /\ img' = img
          /\ ideal' = ideal
       \/ tmpdir' = tmpdir /\ pc' = "panicked" /\ out' = "tempdir_failed"
          /\ img' = NoImage /\ ideal' = Faulted
    /\ UNCHANGED <<fs, res, n, inp, pre>>

\* img.save(&tmpfile) creates the file ...
SaveOpen ==
    /\ pc = "save"
    /\ fs' = [fs EXCEPT ![SavePath] = Torn]
    /\ pc' = "saving"
    /\ UNCHANGED <<tmpdir, res, img, n, inp, out, pre, ideal>>

\* ... and writes the encoded image into it.
SaveWrite ==
    /\ pc = "saving"
    /\ fs' = [fs EXCEPT ![SavePath] = Encode(img)]
    /\ pc' = "rename"
    /\ UNCHANGED <<tmpdir, res, img, n, inp, out, pre, ideal>>

\* img.save fails, before or while writing: the error is printed and the
\* loop continues; tmpdir goes out of scope.
SaveFail ==
    /\ pc \in {"save", "saving"}
    /\ out' = "encode_failed"
    /\ pc' = AfterSaveError
    /\ IF AfterSaveError = "recv"
       THEN fs' = DropTempDir(fs) /\ tmpdir' = FALSE /\ img' = NoImage
       ELSE UNCHANGED <<fs, tmpdir, img>>
    /\ ideal' = Faulted
    /\ UNCHANGED <<res, n, inp, pre>>

\* fs::rename(tmpfile, img_filepath) succeeds; the iteration ends and tmpdir
\* is dropped.
Rename ==
    /\ pc = "rename"
    /\ fs.tmp.kind # "absent"
    /\ fs' = [img |-> fs.tmp, tmp |-> Absent]
    /\ tmpdir' = FALSE
    /\ img' = NoImage
    /\ out' = "published"
    /\ pc' = "recv"
    /\ ideal' = IF ideal = Faulted THEN Faulted ELSE Laid(ideal, res.cmd)
    /\ UNCHANGED <<res, n, inp, pre>>

\* fs::rename(..).unwrap() on an error: the task panics; unwinding drops
\* tmpdir.
RenameFail ==
    /\ pc = "rename"
    /\ fs' = DropTempDir(fs)
    /\ tmpdir' = FALSE
    /\ img' = NoImage
    /\ out' = "rename_failed"
    /\ pc' = "panicked"
    /\ ideal' = Faulted
    /\ UNCHANGED <<res, n, inp, pre>>

Next ==
    \/ RecvPrivmsg
    \/ RecvOther
    \/ RecvClosed
    \/ Load
    \/ BlendPixel
    \/ TempDir
    \/ SaveOpen
    \/ SaveWrite
    \/ SaveFail
    \/ Rename
    \/ RenameFail

Spec == Init /\ [][Next]_vars

(***************************************************************************)
(* The canvas file is also written by another program.  It replaces the    *)
(* file in one step between two cycles of the bot: after the rename of the *)
(* cycle before and before the load of the cycle that is about to start.   *)
(***************************************************************************)
ExternalFiles == { Png("Rgba8", 2, 1, << <<40, 50, 60, 255>>, <<70, 80, 90, 200>> >>) }

ExternalWrite ==
    /\ pc = "load"
    /\ \E f \in ExternalFiles :
         /\ fs.img # f
         /\ fs' = [fs EXCEPT !["img"] = f]
         /\ ideal' = IF ideal = Faulted THEN Faulted ELSE ToRgba8(f)
    /\ UNCHANGED <<tmpdir, pc, res, img, n, inp, out, pre>>

\* The bot starts on a canvas file that holds an RGBA image.
InitExt == Init /\ Decodable(fs.img) /\ fs.img.ct = "Rgba8"

NextExt == Next \/ ExternalWrite

SpecExt == InitExt /\ [][NextExt]_vars

(***************************************************************************)
(* Command::try_from on its own: the line is drawn from ParseInputs and    *)
(* the one action applies the function to it.                              *)
(***************************************************************************)
InitParse ==
    /\ fs = [img |-> Absent, tmp |-> Absent]
    /\ tmpdir = FALSE
    /\ pc = "parse"
    /\ res = NoResult
    /\ img = NoImage
    /\ n = 0
    /\ inp \in ParseInputs
    /\ out = "start"
    /\ pre = Absent
    /\ ideal = NoImage

ApplyTryFrom ==
    /\ pc = "parse"
    /\ res' = TryFrom(Line(inp))
    /\ out' = IF res'.ok THEN "parsed" ELSE "rejected"
    /\ pc' = "parsed"
    /\ UNCHANGED <<fs, tmpdir, img, n, inp, pre, ideal>>

NextParse == ApplyTryFrom

SpecParse == InitParse /\ [][NextParse]_vars

(***************************************************************************)
(* What a line is, read off its tokens (not off the parser).               *)
(***************************************************************************)
IsByte(v) == v.hi = 0 /\ v.lo <= 255

\* The tokens are joined by single spaces and nothing surrounds them.
SingleSpaced(i) == i.sep = <<" ">> /\ i.lead = <<>> /\ i.trail = <<>>

AllDigits(i) == \A k \in 1..Len(i.toks) : i.toks[k].cls = "digits"

\* 5 or 6 decimal numbers joined by single spaces, x and y u32.
FiveOrSixNumbers(i) == SingleSpaced(i) /\ Len(i.toks) \in {5, 6} /\ AllDigits(i)

\* ... whose colour components are all in 0..255.
WellFormed(i) ==
    FiveOrSixNumbers(i) /\ \A k \in 3..Len(i.toks) : IsByte(i.toks[k].v)

\* The alpha the line asks for.
AlphaAsked(i) == IF Len(i.toks) = 6 THEN i.toks[6].v.lo ELSE 255

\* A token that is no number.
NonNumeric(t) == t.cls \in {"empty", "word"}

\* A line with a non-numeric token or with a token count other than 5 or 6.
Malformed(i) ==
    /\ SingleSpaced(i)
    /\ Len(i.toks) >= 1
    /\ (\E k \in 1..Len(i.toks) : NonNumeric(i.toks[k])) \/ Len(i.toks) \notin {5, 6}

\* A well-formed line that addresses a pixel outside the configured canvas.
Outside(i) ==
    /\ WellFormed(i)
    /\ U32Ge(i.toks[1].v, Config.width) \/ U32Ge(i.toks[2].v, Config.height)

Inside(i) == WellFormed(i) /\ ~Outside(i)

\* Nothing of a cycle exists: no buffer, no scratch directory, no temp file.
NoCycleState == img = NoImage /\ ~tmpdir /\ fs.tmp = Absent

(***************************************************************************)
(* C1.  A line of 5 or 6 decimal numbers joined by single spaces, x and y  *)
(* u32 and every colour in 0..255, parses, and the command carries the     *)
(* values in order; with 5 numbers its alpha is 255.                       *)
(***************************************************************************)
C1_ParseRoundTrip ==
    (pc = "parsed" /\ WellFormed(inp)) =>
        /\ res.ok
        /\ res.cmd.x = inp.toks[1].v
        /\ res.cmd.y = inp.toks[2].v
        /\ res.cmd.r = inp.toks[3].v.lo
        /\ res.cmd.g = inp.toks[4].v.lo
        /\ res.cmd.b = inp.toks[5].v.lo
        /\ res.cmd.a = AlphaAsked(inp)

C1_Witness ==
    /\ pc = "parsed"
    /\ WellFormed(inp)
    /\ Len(inp.toks) = 6
    /\ inp.toks[1].v = U32(65535, 65535)
    /\ inp.toks[6].v = U32(0, 128)
    /\ res.ok
    /\ res.cmd.a = 128

(***************************************************************************)
(* C2.  A line with a non-numeric token, or with a token count other than  *)
(* 5 or 6, fails to parse, and handling it leaves the canvas file as it    *)
(* was: nothing is loaded, no temporary file is written, nothing renamed.  *)
(***************************************************************************)
C2_MalformedRejected ==
    Malformed(inp) =>
        /\ ~res.ok
        /\ out = "rejected"
        /\ pc = "recv"
        /\ fs.img = pre
        /\ NoCycleState

C2_Witness ==
    /\ Malformed(inp)
    /\ Len(inp.toks) = 7
    /\ AllDigits(inp)
    /\ out = "rejected"
    /\ pre.kind = "png"
    /\ n = 2

(***************************************************************************)
(* C3.  A line of 5 or 6 numbers in which a colour component, the alpha    *)
(* included, exceeds 255 is rejected: it is never accepted with a wrapped  *)
(* component, and the canvas is not touched.                               *)
(***************************************************************************)
C3_ColourRangeEnforced ==
    (FiveOrSixNumbers(inp) /\ ~WellFormed(inp)) =>
        /\ ~res.ok
        /\ out = "rejected"
        /\ fs.img = pre
        /\ NoCycleState

(***************************************************************************)
(* C4.  After a parse error, an out-of-bounds command, a load failure, an  *)
(* encode failure or a rename failure the loop is still running, waiting   *)
(* for the next chat line.                                                 *)
(***************************************************************************)
C4_LoopSurvivesErrors ==
    out \in {"rejected", "dropped", "load_failed", "encode_failed", "rename_failed"}
        => pc = "recv"

\* The buffer a cycle starting from file f with command c publishes.
After(f, c) ==
    LET i == ToRgba8(f)
    IN  [i EXCEPT !.px[PixelIndex(i, c.x, c.y)] = Blend(@, <<c.r, c.g, c.b, c.a>>)]

CanvasComplete ==
    /\ fs.img.kind # "torn"
    /\ IF out = "published" THEN fs.img = Encode(After(pre, res.cmd))
       ELSE fs.img = pre

(***************************************************************************)
(* C5.  In every state the canvas file is a complete image: the one before *)
(* the current cycle or the fully encoded one after it, never the          *)
(* beginning of an encoding; and only the rename changes the canvas file.  *)
(***************************************************************************)
C5_AtomicPublish ==
    /\ []CanvasComplete
    /\ [][fs'.img # fs.img => (pc = "rename" /\ out' = "published")]_vars

\* The temporary file is half written and the canvas is still the old image.
C5_Witness ==
    /\ pc = "saving"
    /\ fs.tmp = Torn
    /\ fs.img = pre
    /\ pre.kind = "png"

(***************************************************************************)
(* C6.  A parsed command with x >= width or y >= height leaves the canvas  *)
(* file unchanged, is no error, and the loop waits for the next line.      *)
(***************************************************************************)
C6_OutsideDropped ==
    Outside(inp) =>
        /\ res.ok
        /\ out = "dropped"
        /\ pc = "recv"
        /\ fs.img = pre
        /\ NoCycleState

C6_Witness ==
    /\ Outside(inp)
    /\ inp.toks[1].v = Config.width
    /\ out = "dropped"
    /\ pc = "recv"
    /\ pre.kind = "png"

(***************************************************************************)
(* C7.  After a cycle without fault for a line inside the canvas with      *)
(* alpha 255, the pixel at (x, y) of the canvas file is exactly            *)
(* (r, g, b, 255), whatever it was, and every other pixel is as before.    *)
(***************************************************************************)
C7_OpaqueOverwrites ==
    (out = "published" /\ Inside(inp) /\ AlphaAsked(inp) = 255) =>
        LET before == ToRgba8(pre)
            t      == inp.toks
            at     == PixelIndex(before, t[1].v, t[2].v)
        IN  /\ fs.img.kind = "png"
            /\ fs.img.w = before.w
            /\ fs.img.h = before.h
            /\ Len(fs.img.px) = Len(before.px)
            /\ fs.img.px[at] = <<t[3].v.lo, t[4].v.lo, t[5].v.lo, 255>>
            /\ \A j \in 1..Len(before.px) : j # at => fs.img.px[j] = before.px[j]

(***************************************************************************)
(* C8.  After a cycle without fault for a line inside the canvas with      *)
(* alpha 0, the red, green and blue of the pixel at (x, y) are as before.  *)
(***************************************************************************)
C8_TransparentKeepsColour ==
    (out = "published" /\ Inside(inp) /\ AlphaAsked(inp) = 0) =>
        LET before == ToRgba8(pre)
            at     == PixelIndex(before, inp.toks[1].v, inp.toks[2].v)
        IN  /\ fs.img.kind = "png"
            /\ fs.img.px[at][1] = before.px[at][1]
            /\ fs.img.px[at][2] = before.px[at][2]
            /\ fs.img.px[at][3] = before.px[at][3]

(***************************************************************************)
(* C9.  When encoding to the temporary file fails, the cycle ends without  *)
(* the rename, the canvas file is what it was before the cycle, and the    *)
(* loop waits for the next line.                                           *)
(***************************************************************************)
C9_EncodeFailureLeavesCanvas ==
    out = "encode_failed" =>
        /\ pc = "recv"
        /\ fs.img = pre
        /\ fs.img.kind = "png"

C9_Witness ==
    /\ out = "encode_failed"
    /\ pc = "recv"
    /\ fs.img = pre
    /\ n < MaxLines

(***************************************************************************)
(* C10.  When the canvas file cannot be opened or decoded, a cycle started *)
(* on it ends at the load: no scratch directory or temporary file is       *)
(* created, nothing is renamed, and the canvas path holds what it held.    *)
(***************************************************************************)
C10_LoadFailureWritesNothing ==
    (~(pre.kind = "png") /\ Inside(inp)) =>
        /\ \/ (pc = "load" /\ out = "cycle")
           \/ (pc = "panicked" /\ out = "load_failed")
        /\ fs.img = pre
        /\ NoCycleState

C10_Witness ==
    /\ out = "load_failed"
    /\ pre = Corrupt
    /\ fs.img = Corrupt
    /\ NoCycleState

InFlight == out = "cycle"

(***************************************************************************)
(* C12.  Cycles do not overlap.  A message is taken from the queue only    *)
(* while no cycle is in flight and nothing of a cycle exists, and a cycle  *)
(* comes to its load with no buffer, scratch directory or temporary file   *)
(* of another cycle in existence: between a cycle's load and its rename or *)
(* abort no other line is received and no other load is made.              *)
(***************************************************************************)
C12_CyclesDoNotOverlap ==
    /\ [](pc = "load" => (InFlight /\ NoCycleState))
    /\ [][n' # n => (~InFlight /\ NoCycleState /\ pc = "recv")]_vars
    /\ [][(InFlight /\ pc # "load") => (pc' # "load" /\ inp' = inp /\ res' = res)]_vars

C12_Witness ==
    /\ n = 2
    /\ n < MaxLines
    /\ InFlight
    /\ pc = "rename"
    /\ fs.tmp = Encode(img)
    /\ fs.img \notin InitialFiles

\* The last line's handling is over: it was refused, or its cycle ended.
Ended ==
    out \in {"rejected", "dropped", "ignored", "published", "encode_failed",
             "load_failed", "pixel_panic", "tempdir_failed", "rename_failed"}

(***************************************************************************)
(* C13.  A line is applied at most once.  The canvas file is replaced only *)
(* in the cycle of the line received last, a line that parsed and passed   *)
(* the bounds check, and the replacement ends that cycle; once the         *)
(* handling of a line is over, by a publish or by a failure, nothing more  *)
(* is done for it: the next step is the receipt of another message.  So    *)
(* each line accounts for at most one rename, and the publishes never      *)
(* outnumber the lines that parsed and passed the bounds check.            *)
(***************************************************************************)
C13_AtMostOncePerLine ==
    /\ [][(fs'.img # fs.img \/ (out' = "published" /\ out # "published")) =>
            /\ InFlight
            /\ res.ok
            /\ ~OutOfBounds(res.cmd)
            /\ res = TryFrom(Line(inp))
            /\ n' = n
            /\ out' = "published"
            /\ pc' = "recv"]_vars
    /\ [][Ended => (n' = n + 1 \/ pc' = "closed")]_vars
    /\ [][InFlight => (n' = n /\ inp' = inp)]_vars

C13_Witness ==
    /\ n = 2
    /\ out = "published"
    /\ pc = "recv"
    /\ fs.img # pre
    /\ pre \notin InitialFiles

\* The characters the claim counts as whitespace between tokens.
IsWhitespace(s) == Len(s) >= 1 /\ \A k \in 1..Len(s) : s[k] \in {" ", "\t"}

\* 5 or 6 decimal numbers with colours in 0..255, joined by whitespace of
\* any kind and possibly surrounded by it.
WhitespaceJoined(i) ==
    /\ Len(i.toks) \in {5, 6}
    /\ AllDigits(i)
    /\ \A k \in 3..Len(i.toks) : IsByte(i.toks[k].v)
    /\ IsWhitespace(i.sep)
    /\ i.lead = <<>> \/ IsWhitespace(i.lead)
    /\ i.trail = <<>> \/ IsWhitespace(i.trail)

(***************************************************************************)
(* C14.  A line of 5 or 6 decimal numbers in range parses whenever its     *)
(* tokens are joined by whitespace: a tab, more than one space, or         *)
(* whitespace before the first or after the last token included.           *)
(***************************************************************************)
C14_AnyWhitespaceParses ==
    (pc = "parsed" /\ WhitespaceJoined(inp)) => res.ok

\* A token str::parse::<u32> has no value for: empty, not made of digits,
\* negative, or beyond the u32 range.
Unparsable(t) ==
    \/ t.cls \in {"empty", "word", "big"}
    \/ t.cls = "signed" /\ t.txt[1] = "-"

\* What try_from may return: a command of a u32 pair and four bytes, or one
\* of its three errors.
IsResult(r) ==
    \/ /\ r.ok
       /\ r.err = ""
       /\ \A f \in {"x", "y"} : r.cmd[f].hi \in 0..65535 /\ r.cmd[f].lo \in 0..65535
       /\ \A f \in {"r", "g", "b", "a"} : r.cmd[f] \in 0..255
    \/ /\ ~r.ok
       /\ r.err \in {"error parsing", "too many args", "invalid r g b"}
       /\ r.cmd = NoCommand

(***************************************************************************)
(* C15.  try_from is total: for every line it returns a command or one of  *)
(* its errors.  A token beyond the u32 range, an empty line and any other  *)
(* token that is no number give the parsing error, whatever the token      *)
(* count; the colour check, which indexes the fields 2..4, is reached only *)
(* with 5 or 6 tokens, a line of numbers with another count being refused  *)
(* by the arity check before it.                                           *)
(***************************************************************************)
C15_TryFromTotal ==
    pc = "parsed" =>
        /\ IsResult(res)
        /\ (SingleSpaced(inp) /\ Len(inp.toks) >= 1) =>
              /\ (\E k \in 1..Len(inp.toks) : Unparsable(inp.toks[k]))
                    => res = Err("error parsing")
              /\ ((\A k \in 1..Len(inp.toks) : ~Unparsable(inp.toks[k]))
                    /\ Len(inp.toks) \notin {5, 6})
                    => res = Err("too many args")
              /\ (res.ok \/ res.err = "invalid r g b") => Len(inp.toks) \in {5, 6}

C15_Witness ==
    /\ pc = "parsed"
    /\ SingleSpaced(inp)
    /\ Len(inp.toks) = 2
    /\ inp.toks[2] = TokBig
    /\ res = Err("error parsing")

(***************************************************************************)
(* C16.  A line is accepted only if every token is a non-empty sequence of *)
(* decimal digits: a line with any other token, one with a leading plus    *)
(* sign included, is rejected and the canvas file stays as it was.         *)
(***************************************************************************)
C16_OnlyDigitTokensAccepted ==
    (SingleSpaced(inp) /\ \E k \in 1..Len(inp.toks) : inp.toks[k].cls # "digits") =>
        /\ ~res.ok
        /\ out = "rejected"
        /\ fs.img = pre

(***************************************************************************)
(* C17.  While no cycle has failed, the canvas file holds the first image  *)
(* with the blends of exactly the published lines, those that parsed and   *)
(* passed the bounds check, laid on it in the order of arrival.  A cycle   *)
(* carries nothing over from the one before: its buffer is the blend laid  *)
(* on the image that is on disk at its load, so what another program wrote *)
(* between two cycles is the base of the next one and is kept.             *)
(***************************************************************************)
C17_CanvasIsFoldOfLines ==
    ideal # Faulted =>
        /\ Decodable(fs.img)
        /\ ToRgba8(fs.img) = ideal
        /\ pc \in {"tempdir", "save", "saving", "rename"} => img = Laid(ideal, res.cmd)
        /\ pc \in {"recv", "load", "closed"} => img = NoImage

C17_Witness ==
    /\ ideal # Faulted
    /\ n = 2
    /\ out = "published"
    /\ pre \notin InitialFiles
    /\ pre \notin ExternalFiles
    /\ \E f \in ExternalFiles :
         /\ fs.img = Encode(Laid(ToRgba8(f), res.cmd))
         /\ fs.img # Encode(Laid(ToRgba8(pre), res.cmd))

\* The positions of the task from the load of the canvas file onward.
LoadOrLater == {"load", "blend", "tempdir", "save", "saving", "rename", "panicked"}

(***************************************************************************)
(* C18.  The bounds check comes before the load: for a command with        *)
(* x >= width or y >= height the canvas file is never opened or decoded.   *)
(* The task does not come to the load for it and no load failure follows,  *)
(* also when the canvas file is missing or corrupt: the line is dropped    *)
(* and the loop goes on.                                                   *)
(***************************************************************************)
C18_OutsideNeverLoads ==
    Outside(inp) =>
        /\ pc \notin LoadOrLater
        /\ out # "load_failed"
        /\ img = NoImage
        /\ ~Decodable(pre) => (out = "dropped" /\ pc = "recv" /\ fs.img = pre)

C18_Witness ==
    /\ Outside(inp)
    /\ inp.toks[2].v = Config.height
    /\ pre = Absent
    /\ fs.img = Absent
    /\ out = "dropped"
    /\ pc = "recv"
    /\ n < MaxLines

(***************************************************************************)
(* C19.  Every command that passes the bounds check addresses a pixel of   *)
(* the image that was loaded: the blend is never asked for a pixel outside *)
(* the decoded image, also when the canvas file is smaller than the        *)
(* configured width and height.                                            *)
(***************************************************************************)
C19_BlendInsideLoadedImage ==
    /\ pc = "blend" => InImage(img, res.cmd.x, res.cmd.y)
    /\ out # "pixel_panic"

(***************************************************************************)
(* C20.  Temporary storage does not pile up.  Whenever the task is not     *)
(* inside a cycle, the cycle before having ended by its rename, by an      *)
(* encode failure, by a rename failure or earlier, the scratch directory   *)
(* of that cycle and the temporary image in it no longer exist; a          *)
(* temporary image exists only inside the scratch directory of the cycle   *)
(* that is running.                                                        *)
(***************************************************************************)
C20_NoTempLeftBehind ==
    /\ (pc \in {"recv", "closed", "panicked"}
          \/ out \in {"published", "encode_failed", "rename_failed"})
         => (~tmpdir /\ fs.tmp = Absent)
    /\ fs.tmp # Absent => (tmpdir /\ InFlight)

C20_Witness ==
    /\ n = 2
    /\ out = "encode_failed"
    /\ pc = "recv"
    /\ ~tmpdir
    /\ fs.tmp = Absent
    /\ pre \notin InitialFiles

====
